---- MODULE Spec2Model ----
(***************************************************************************)
(* Session orchestrator of the voice trainer (src/App.tsx): the React      *)
(* state of the App component, its refs, the remote live sessions it       *)
(* opens, the interval and timeout tasks it schedules, and the callbacks   *)
(* that run on them.                                                       *)
(*                                                                         *)
(* The callbacks handed to ai.live.connect are created once, inside        *)
(* handleStartWorkout, and keep the bindings of the render in which Start  *)
(* was clicked: activeExercises, workoutState.currentExerciseIndex and     *)
(* stopWorkout seen by onmessage are the values of that render             *)
(* (capExercises, capIndex), while functional state updates receive the    *)
(* current state (prev).  Refs are always current.                         *)
(*                                                                         *)
(* Spec is the workout side: sessions, tool calls, rest timers, teardown.  *)
(* SpecAudio is the audio side: the capture graph onopen builds, the       *)
(* playback refs, and onmessage runs suspended at await decodeAudioData,   *)
(* during which any other callback may run.                                *)
(***************************************************************************)
EXTENDS Integers, Sequences, FiniteSets, TLC

\* ---------------------------------------------------------------- bounds
MaxSessions == 3
MaxCalls == 2
MaxCallsPerMsg == 2
MaxAudioSessions == 2
MaxSegments == 2
MaxClock == 1

\* ------------------------------------------------------------- src/types.ts
Difficulty == {"Easy", "Moderate", "Challenging"}

\* the difficulties the user and the model are taken to ask for
DifficultyInputs == {"Moderate", "Challenging"}

\* the null profile, kept a record so that it compares with the profiles
NoProfile == [goal |-> "null", experience |-> "null"]

\* the value argument of a call that carries none
NoDifficulty == "undefined"

\* UserProfile, reduced to the fields handleStartWorkout reads for the
\* recommendation
Profiles == {[goal |-> "Strength", experience |-> "Beginner"],
             [goal |-> "Hypertrophy", experience |-> "Intermediate"]}

\* ------------------------------------------ services/workoutService (catalog)
Exercise(id, reps, sets, rest) ==
    [id |-> id, targetReps |-> reps, targetSets |-> sets, restSeconds |-> rest]

EXERCISES ==
    [pushup |-> Exercise("pushup", 5, 1, 0),
     squat  |-> Exercise("squat", 5, 1, 2),
     plank  |-> Exercise("plank", 1, 1, 1)]

getRecommendedWorkout(goal, experience) ==
    IF goal = "Strength" THEN <<EXERCISES.pushup>>
    ELSE <<EXERCISES.squat, EXERCISES.plank>>

Max(a, b) == IF a >= b THEN a ELSE b

DifficultyStep(d) ==
    CASE d = "Easy" -> -1
      [] d = "Moderate" -> 0
      [] d = "Challenging" -> 1

adjustExerciseByDifficulty(ex, d) ==
    [ex EXCEPT !.targetReps = Max(1, EXERCISES[ex.id].targetReps + DifficultyStep(d)),
               !.targetSets = Max(1, EXERCISES[ex.id].targetSets + DifficultyStep(d))]

\* ------------------------------------------------------------------ state
VARIABLES
    profile,           \* useState<UserProfile | null>
    history,           \* useState<WorkoutSession[]>, newest first
    isWorkoutActive,   \* useState(false)
    workoutState,      \* useState<WorkoutState>
    activeExercises,   \* useState<Exercise[]>
    sessionRef,        \* useRef: 0 is null, else the session's number
    timerIntervalRef,  \* useRef: 0 is null, else an interval id
    intervals,         \* the live setInterval tasks
    pendingStops,      \* the setTimeout(stopWorkout, 2000) tasks, in order
    sessions,          \* the remote sessions opened so far
    responses,         \* per function call received, the tool-responses sent
    crashed,           \* an updater threw: React unmounted the component
    userStopped,       \* bookkeeping: Exit Session was clicked since the last start
    isModelSpeaking,   \* useState(false)
    outputAudioContextRef, \* useRef: 0 is null, else the session whose onopen
                       \* created the playback context
    outputTime,        \* currentTime of the context outputAudioContextRef holds
    nextStartTimeRef,  \* useRef<number>(0)
    sourcesRef,        \* useRef<Set<AudioBufferSourceNode>>: ids of its members
    nodes,             \* the buffer sources created whose ended event is to come
    inflight,          \* onmessage runs suspended at await decodeAudioData
    capture,           \* sessions whose onopen attached onaudioprocess
    audioSeq,          \* audio payloads taken up so far (names the sources)
    ctxUsed,           \* bookkeeping: audio was taken up since the playback
                       \* context was created
    lastFrame          \* bookkeeping: where the latest captured frame went

audioVars == <<isModelSpeaking, outputAudioContextRef, outputTime,
               nextStartTimeRef, sourcesRef, nodes, inflight, capture,
               audioSeq, ctxUsed, lastFrame>>

vars == <<profile, history, isWorkoutActive, workoutState, activeExercises,
          sessionRef, timerIntervalRef, intervals,
          pendingStops, sessions, responses, crashed, userStopped, audioVars>>

InitialWorkoutState ==
    [isActive |-> FALSE, currentExerciseIndex |-> 0, currentSet |-> 1,
     timer |-> 0, isResting |-> FALSE]

Init ==
    /\ profile = NoProfile
    /\ history = <<>>
    /\ isWorkoutActive = FALSE
    /\ workoutState = InitialWorkoutState
    /\ activeExercises = <<>>
    /\ sessionRef = 0
    /\ timerIntervalRef = 0
    /\ intervals = {}
    /\ pendingStops = <<>>
    /\ sessions = <<>>
    /\ responses = <<>>
    /\ crashed = FALSE
    /\ userStopped = FALSE
    /\ isModelSpeaking = FALSE
    /\ outputAudioContextRef = 0
    /\ outputTime = 0
    /\ nextStartTimeRef = 0
    /\ sourcesRef = {}
    /\ nodes = {}
    /\ inflight = {}
    /\ capture = {}
    /\ audioSeq = 0
    /\ ctxUsed = FALSE
    /\ lastFrame = "none"

\* the session started most recently (0: none)
CurrentSession == Len(sessions)

\* ------------------------------------------------------------- onboarding
OnboardingComplete(p) ==
    /\ profile = NoProfile
    /\ ~crashed
    /\ profile' = p
    /\ UNCHANGED <<history, isWorkoutActive, workoutState, activeExercises,
                   sessionRef, timerIntervalRef, intervals,
                   pendingStops, sessions, responses, crashed, userStopped,
                   audioVars>>

\* ------------------------------------------------------ handleStartWorkout
\* Up to the await: the Dashboard (shown while the workout is inactive)
\* invokes it.  The callbacks of the new session capture this render's
\* activeExercises and workoutState.currentExerciseIndex.
handleStartWorkout ==
    /\ ~crashed
    /\ profile # NoProfile
    /\ ~isWorkoutActive
    /\ Len(sessions) < MaxSessions
    /\ isWorkoutActive' = TRUE
    /\ activeExercises' = getRecommendedWorkout(profile.goal, profile.experience)
    /\ workoutState' = [isActive |-> TRUE, currentExerciseIndex |-> 0,
                        currentSet |-> 1, timer |-> 0, isResting |-> FALSE]
    /\ sessions' = Append(sessions,
                          [status |-> "connecting",
                           capExercises |-> activeExercises,
                           capIndex |-> workoutState.currentExerciseIndex])
    /\ userStopped' = FALSE
    /\ UNCHANGED <<profile, history, sessionRef, timerIntervalRef, intervals,
                   pendingStops, responses, crashed, audioVars>>

\* The handshake completes: sessionRef.current = await sessionPromise
ConnectResolves(s) ==
    /\ s \in 1..Len(sessions)
    /\ sessions[s].status = "connecting"
    /\ sessions' = [sessions EXCEPT ![s].status = "open"]
    /\ sessionRef' = s
    /\ UNCHANGED <<profile, history, isWorkoutActive, workoutState,
                   activeExercises, timerIntervalRef, intervals,
                   pendingStops, responses, crashed,
                   userStopped, audioVars>>

\* ------------------------------------------------------------- stopWorkout
\* A closed session: none of its callbacks runs again, so the bindings they
\* captured are dropped with it
ClosedSession == [status |-> "closed", capExercises |-> <<>>, capIndex |-> 0]

\* session.close() on the handle; closing a closed session does nothing.
\* The close event that follows runs onclose, whose setIsWorkoutActive(false)
\* repeats what stopWorkout has just done.
CloseSession(ss, s) ==
    [ss EXCEPT ![s] = IF @.status = "open" THEN ClosedSession ELSE @]

\* the record stopWorkout synthesizes from the activeExercises it closed over
NewSession(exs) ==
    [exercises |-> [i \in 1..Len(exs) |->
                       [exerciseId |-> exs[i].id,
                        sets |-> [j \in 1..exs[i].targetSets |->
                                     [reps |-> exs[i].targetReps]]]],
     during |-> CurrentSession]

\* exs: the activeExercises of the render whose stopWorkout runs.  The state
\* setters do nothing once the component is unmounted; the refs still work.
stopWorkout(exs) ==
    /\ isWorkoutActive' = IF crashed THEN isWorkoutActive ELSE FALSE
    /\ workoutState' = IF crashed THEN workoutState
                       ELSE [workoutState EXCEPT !.isActive = FALSE]
    /\ sessions' = IF sessionRef # 0 THEN CloseSession(sessions, sessionRef)
                   ELSE sessions
    /\ sessionRef' = 0
    /\ intervals' = IF timerIntervalRef # 0
                    THEN {t \in intervals : t.id # timerIntervalRef}
                    ELSE intervals
    /\ history' = IF crashed THEN history ELSE <<NewSession(exs)>> \o history
    /\ UNCHANGED <<profile, activeExercises, timerIntervalRef,
                   responses, crashed, audioVars>>

\* the Exit Session button, rendered while isWorkoutActive
UserStop ==
    /\ ~crashed
    /\ isWorkoutActive
    /\ stopWorkout(activeExercises)
    /\ userStopped' = TRUE
    /\ UNCHANGED pendingStops

\* a setTimeout(stopWorkout, 2000) task fires: the stopWorkout of the render
\* that the scheduling session's callbacks captured
TimeoutStop ==
    /\ pendingStops # <<>>
    /\ stopWorkout(Head(pendingStops).capExercises)
    /\ pendingStops' = Tail(pendingStops)
    /\ UNCHANGED userStopped

\* ----------------------------------------------------------------- onclose
onclose(s) ==
    /\ isWorkoutActive' = IF crashed THEN isWorkoutActive ELSE FALSE
    /\ sessions' = [sessions EXCEPT ![s] = ClosedSession]
    /\ UNCHANGED <<profile, history, workoutState, activeExercises, sessionRef,
                   timerIntervalRef, intervals, pendingStops,
                   responses, crashed, userStopped, audioVars>>

\* the remote end closes an open session
RemoteClose(s) ==
    /\ s \in 1..Len(sessions)
    /\ sessions[s].status = "open"
    /\ onclose(s)

\* ---------------------------------------------------------- startRestTimer
\* The part of the state a tool-call handler works on; thrown: an exception
\* left the handler
HandlerState ==
    [workoutState |-> workoutState, activeExercises |-> activeExercises,
     intervals |-> intervals, timerIntervalRef |-> timerIntervalRef,
     pendingStops |-> pendingStops,
     responses |-> responses, crashed |-> crashed, thrown |-> FALSE]

\* clearInterval(timerIntervalRef.current), guarded by the ref being set
ClearCurrentInterval(live, ref) ==
    IF ref # 0 THEN {t \in live : t.id # ref} ELSE live

\* The id window.setInterval returns: an integer above zero that names no
\* other timer, taken to be the least one that is neither live nor held by
\* timerIntervalRef
NewIntervalId(st) ==
    CHOOSE n \in 1..(Cardinality(st.intervals) + 2) :
        /\ n # st.timerIntervalRef
        /\ \A t \in st.intervals : t.id # n
        /\ \A m \in 1..(n - 1) :
              m = st.timerIntervalRef \/ \E t \in st.intervals : t.id = m

\* startRestTimer without the clearInterval of the running timer
startRestTimerNoCancel(st, seconds, s) ==
    [st EXCEPT
       !.intervals = @ \cup {[id |-> NewIntervalId(st), remaining |-> seconds,
                              session |-> s,
                              replaced |-> \E t \in st.intervals :
                                               t.id = st.timerIntervalRef]},
       !.timerIntervalRef = NewIntervalId(st)]

\* session and replaced are bookkeeping: the session whose message started
\* the timer, and whether a running timer was cancelled to start it
startRestTimer(st, seconds, s) ==
    [st EXCEPT
       !.intervals = ClearCurrentInterval(st.intervals, st.timerIntervalRef)
                     \cup {[id |-> NewIntervalId(st), remaining |-> seconds,
                            session |-> s,
                            replaced |-> \E t \in st.intervals :
                                             t.id = st.timerIntervalRef]},
       !.timerIntervalRef = NewIntervalId(st)]

\* one run of the setInterval callback of timer t
RestTimerTick(t) ==
    /\ t \in intervals
    /\ LET remaining == t.remaining - 1
           ticked == (intervals \ {t}) \cup {[t EXCEPT !.remaining = remaining]}
       IN /\ intervals' = IF remaining <= 0
                          THEN ClearCurrentInterval(ticked, timerIntervalRef)
                          ELSE ticked
          /\ workoutState' =
                IF crashed THEN workoutState
                ELSE [workoutState EXCEPT
                        !.timer = remaining,
                        !.isResting = IF remaining <= 0 THEN FALSE ELSE @]
    /\ UNCHANGED <<profile, history, isWorkoutActive, activeExercises,
                   sessionRef, timerIntervalRef, pendingStops,
                   sessions, responses, crashed, userStopped, audioVars>>

\* ------------------------------------------------------ handleTrainerAction
\* The updater passed to setWorkoutState, run on the current state (prev) by
\* the handleTrainerAction that session s's onmessage captured.  Reading
\* targetSets of an exercise the captured list does not have throws inside
\* the updater, and React unmounts the component.
handleTrainerAction(st, s, action) ==
    LET prev == st.workoutState
        capExercises == sessions[s].capExercises
        i == prev.currentExerciseIndex + 1
    IN IF st.crashed \/ action # "finish_set" THEN st
       ELSE IF i \notin DOMAIN capExercises THEN [st EXCEPT !.crashed = TRUE]
       ELSE LET currentEx == capExercises[i]
                isLastSet == prev.currentSet >= currentEx.targetSets
                isLastEx == prev.currentExerciseIndex >= Len(capExercises) - 1
            IN IF isLastSet /\ isLastEx
               THEN [st EXCEPT !.pendingStops =
                                  Append(@, [session |-> s,
                                             capExercises |-> capExercises]),
                               !.workoutState.isActive = FALSE]
               ELSE IF isLastSet
               THEN [st EXCEPT
                       !.workoutState.currentExerciseIndex = @ + 1,
                       !.workoutState.currentSet = 1,
                       !.workoutState.timer = 0,
                       !.workoutState.isResting = FALSE]
               ELSE [startRestTimer(st, currentEx.restSeconds, s) EXCEPT
                       !.workoutState.currentSet = @ + 1,
                       !.workoutState.timer = currentEx.restSeconds,
                       !.workoutState.isResting = TRUE]

\* --------------------------------------------------- handleDifficultyChange
\* currentIdx and exs: workoutState.currentExerciseIndex and activeExercises
\* of the render the running handleDifficultyChange belongs to.  The updater
\* of setActiveExercises works on the current list; the notice to the model
\* adjusts exs[currentIdx], which throws when that entry is missing.
handleDifficultyChange(st, currentIdx, exs, newDifficulty) ==
    LET i == currentIdx + 1
        updated == IF st.crashed \/ i \notin DOMAIN st.activeExercises
                   THEN st.activeExercises
                   ELSE [st.activeExercises EXCEPT
                           ![i] = adjustExerciseByDifficulty(@, newDifficulty)]
    IN [st EXCEPT !.activeExercises = updated,
                  !.thrown = sessionRef # 0 /\ i \notin DOMAIN exs]

\* the difficulty control of WorkoutSessionView, rendered while
\* isWorkoutActive: the handleDifficultyChange of the current render
UIDifficultyChange(d) ==
    /\ ~crashed
    /\ isWorkoutActive
    /\ activeExercises' =
          handleDifficultyChange(HandlerState,
                                 workoutState.currentExerciseIndex,
                                 activeExercises, d).activeExercises
    /\ UNCHANGED <<profile, history, isWorkoutActive, workoutState, sessionRef,
                   timerIntervalRef, intervals, pendingStops,
                   sessions, responses, crashed, userStopped, audioVars>>

\* --------------------------------------------------- onmessage (msg.toolCall)
FunctionCalls ==
    [name : {"updateWorkoutState"},
     action : {"finish_set", "next_exercise", "unknown"},
     value : {NoDifficulty}]
    \cup [name : {"updateWorkoutState"}, action : {"set_difficulty"},
          value : DifficultyInputs]
    \cup [name : {"otherFunction"}, action : {"finish_set"},
          value : {NoDifficulty}]

\* a function call asking for difficulty d
SetDifficultyCall(d) ==
    [name |-> "updateWorkoutState", action |-> "set_difficulty", value |-> d]

ToolCalls ==
    UNION {[1..n -> FunctionCalls] : n \in 1..MaxCallsPerMsg}

\* The for loop over msg.toolCall.functionCalls, run by session s's
\* onmessage.  responses gets one entry per function call of the message, in
\* order: the number of tool-responses sent with that call's id.
RECURSIVE DispatchCalls(_, _, _)
DispatchCalls(st, s, calls) ==
    IF calls = <<>> THEN st
    ELSE LET fc == Head(calls)
             handled ==
                IF st.thrown \/ fc.name # "updateWorkoutState" THEN st
                ELSE IF fc.action = "set_difficulty"
                THEN handleDifficultyChange(st, sessions[s].capIndex,
                                            sessions[s].capExercises, fc.value)
                ELSE handleTrainerAction(st, s, fc.action)
             sent == IF st.thrown \/ handled.thrown
                        \/ fc.name # "updateWorkoutState"
                     THEN 0 ELSE 1
         IN DispatchCalls([handled EXCEPT !.responses = Append(@, sent)],
                          s, Tail(calls))

OnToolCall(s, calls) ==
    /\ s \in 1..Len(sessions)
    /\ sessions[s].status = "open"
    /\ Len(responses) + Len(calls) <= MaxCalls
    /\ LET st == DispatchCalls(HandlerState, s, calls)
       IN /\ workoutState' = st.workoutState
          /\ activeExercises' = st.activeExercises
          /\ intervals' = st.intervals
          /\ timerIntervalRef' = st.timerIntervalRef
          /\ pendingStops' = st.pendingStops
          /\ responses' = st.responses
          /\ crashed' = st.crashed
    /\ UNCHANGED <<profile, history, isWorkoutActive, sessionRef, sessions,
                   userStopped, audioVars>>

\* ------------------------------------------------------------------ onopen
\* the state and refs the audio callbacks never write
appVars == <<profile, history, isWorkoutActive, workoutState, activeExercises,
             sessionRef, timerIntervalRef, intervals, pendingStops, sessions,
             responses, crashed, userStopped>>

\* setIsModelSpeaking(v): does nothing once the component is unmounted
SetIsModelSpeaking(v) == IF crashed THEN isModelSpeaking ELSE v

\* buffer.duration of a decoded segment, in ticks of the playback clock
SegmentDuration == 1

\* onopen of session s, resumed when getUserMedia has delivered the stream:
\* the capture graph is built, onaudioprocess attached and a new playback
\* context (currentTime 0) stored.  The socket has opened by then, and may
\* have been closed since.
onopen(s) ==
    /\ s \in 1..Len(sessions)
    /\ sessions[s].status \in {"open", "closed"}
    /\ s \notin capture
    /\ capture' = capture \cup {s}
    /\ outputAudioContextRef' = s
    /\ outputTime' = 0
    /\ ctxUsed' = FALSE
    /\ UNCHANGED <<isModelSpeaking, nextStartTimeRef, sourcesRef, nodes,
                   inflight, audioSeq, lastFrame>>
    /\ UNCHANGED appVars

\* session s is over: the workout it belongs to was stopped or has ended, or
\* its socket is closed
SessionOver(s) ==
    \/ sessions[s].status = "closed"
    \/ s < CurrentSession
    \/ ~isWorkoutActive

\* processor.onaudioprocess of session s's capture graph: the frame goes to
\* session.sendRealtimeInput whatever has become of the session
CaptureFrame(s) ==
    /\ s \in capture
    /\ lastFrame' = IF SessionOver(s) THEN "late" ELSE "live"
    /\ UNCHANGED <<isModelSpeaking, outputAudioContextRef, outputTime,
                   nextStartTimeRef, sourcesRef, nodes, inflight, capture,
                   audioSeq, ctxUsed>>
    /\ UNCHANGED appVars

\* the clock of the current playback context advances
PlaybackClockTick ==
    /\ outputAudioContextRef # 0
    /\ outputTime < MaxClock
    /\ outputTime' = outputTime + 1
    /\ UNCHANGED <<isModelSpeaking, outputAudioContextRef, nextStartTimeRef,
                   sourcesRef, nodes, inflight, capture, audioSeq, ctxUsed,
                   lastFrame>>
    /\ UNCHANGED appVars

\* ------------------------------------------- onmessage (msg.serverContent)
\* sourcesRef.current.forEach(s => s.stop()) on the sources ns
StopSources(ns, ids) ==
    {[n EXCEPT !.stopped = @ \/ n.id \in ids] : n \in ns}

\* bookkeeping: the suspended runs ms were received before an interruption
BeforeInterruption(ms) == {[m EXCEPT !.stale = TRUE] : m \in ms}

\* A message of session s with serverContent: audio says it carries a model
\* turn with audio data, interrupted that it is flagged interrupted.  With
\* audio and a playback context the run is suspended at await
\* decodeAudioData; otherwise it goes straight to the interrupted branch.
\* A message has serverContent or a toolCall, not both.
OnServerContent(s, audio, interrupted) ==
    /\ s \in 1..Len(sessions)
    /\ sessions[s].status = "open"
    /\ audio \/ interrupted
    /\ audio => audioSeq < MaxSegments
    /\ IF audio /\ outputAudioContextRef # 0
       THEN /\ isModelSpeaking' = SetIsModelSpeaking(TRUE)
            /\ nextStartTimeRef' = Max(nextStartTimeRef, outputTime)
            /\ inflight' = inflight \cup
                  {[id |-> audioSeq + 1, session |-> s,
                    ctx |-> outputAudioContextRef,
                    interrupted |-> interrupted, stale |-> FALSE]}
            /\ audioSeq' = audioSeq + 1
            /\ ctxUsed' = TRUE
            /\ UNCHANGED <<sourcesRef, nodes>>
       ELSE IF interrupted
       THEN /\ nodes' = StopSources(nodes, sourcesRef)
            /\ sourcesRef' = {}
            /\ nextStartTimeRef' = 0
            /\ isModelSpeaking' = SetIsModelSpeaking(FALSE)
            /\ inflight' = BeforeInterruption(inflight)
            /\ UNCHANGED <<audioSeq, ctxUsed>>
       ELSE UNCHANGED <<isModelSpeaking, nextStartTimeRef, inflight, audioSeq,
                        ctxUsed, sourcesRef, nodes>>
    /\ UNCHANGED <<outputAudioContextRef, outputTime, capture, lastFrame>>
    /\ UNCHANGED appVars

\* decodeAudioData has resolved and the suspended run m goes on: the source
\* is created on the context the run read before the await, started at what
\* nextStartTimeRef holds now and added to sourcesRef; then the interrupted
\* branch, if the message was flagged
DecodeCompletes(m) ==
    /\ m \in inflight
    /\ LET source == [id |-> m.id, ctx |-> m.ctx,
                      startAt |-> nextStartTimeRef, stopped |-> FALSE,
                      stale |-> m.stale]
       IN IF m.interrupted
          THEN /\ nodes' = StopSources(nodes \cup {source},
                                       sourcesRef \cup {m.id})
               /\ sourcesRef' = {}
               /\ nextStartTimeRef' = 0
               /\ isModelSpeaking' = SetIsModelSpeaking(FALSE)
               /\ inflight' = BeforeInterruption(inflight \ {m})
          ELSE /\ nodes' = nodes \cup {source}
               /\ sourcesRef' = sourcesRef \cup {m.id}
               /\ nextStartTimeRef' = nextStartTimeRef + SegmentDuration
               /\ inflight' = inflight \ {m}
               /\ UNCHANGED isModelSpeaking
    /\ UNCHANGED <<outputAudioContextRef, outputTime, capture, audioSeq,
                   ctxUsed, lastFrame>>
    /\ UNCHANGED appVars

\* source.onended of n calls setIsModelSpeaking(false)
SignalsFinished(n) == sourcesRef \ {n.id} = {}

\* source.onended: the source n has played to its end or was stopped
SourceEnded(n) ==
    /\ n \in nodes
    /\ nodes' = nodes \ {n}
    /\ sourcesRef' = sourcesRef \ {n.id}
    /\ isModelSpeaking' = IF SignalsFinished(n) THEN SetIsModelSpeaking(FALSE)
                          ELSE isModelSpeaking
    /\ UNCHANGED <<outputAudioContextRef, outputTime, nextStartTimeRef,
                   inflight, capture, audioSeq, ctxUsed, lastFrame>>
    /\ UNCHANGED appVars

\* ------------------------------------------------------------ specification
Next ==
    \/ \E p \in Profiles : OnboardingComplete(p)
    \/ handleStartWorkout
    \/ \E s \in 1..Len(sessions) : ConnectResolves(s)
    \/ UserStop
    \/ TimeoutStop
    \/ \E s \in 1..Len(sessions) : RemoteClose(s)
    \/ \E t \in intervals : RestTimerTick(t)
    \/ \E d \in DifficultyInputs : UIDifficultyChange(d)
    \/ \E s \in 1..Len(sessions), calls \in ToolCalls : OnToolCall(s, calls)

Spec == Init /\ [][Next]_vars

\* The audio side of the program: capture, playback and the messages that
\* carry server content, for one profile and an agent that calls no tool, so
\* that no rest timer and no teardown task is ever started.
NextAudio ==
    \/ \E p \in {q \in Profiles : q.goal = "Strength"} : OnboardingComplete(p)
    \/ handleStartWorkout /\ Len(sessions) < MaxAudioSessions
    \/ \E s \in 1..Len(sessions) : ConnectResolves(s)
    \/ \E s \in 1..Len(sessions) : onopen(s)
    \/ \E s \in capture : CaptureFrame(s)
    \/ PlaybackClockTick
    \/ UserStop
    \/ \E s \in 1..Len(sessions) : RemoteClose(s)
    \/ \E s \in 1..Len(sessions), audio \in BOOLEAN, interrupted \in BOOLEAN :
          OnServerContent(s, audio, interrupted)
    \/ \E m \in inflight : DecodeCompletes(m)
    \/ \E n \in nodes : SourceEnded(n)

SpecAudio == Init /\ [][NextAudio]_vars

TypeOK ==
    /\ isWorkoutActive \in BOOLEAN
    /\ crashed \in BOOLEAN
    /\ sessionRef \in 0..Len(sessions)
    /\ Len(responses) <= MaxCalls
    /\ isModelSpeaking \in BOOLEAN
    /\ outputAudioContextRef \in 0..Len(sessions)
    /\ outputTime \in 0..MaxClock
    /\ nextStartTimeRef \in 0..(MaxClock + MaxSegments * SegmentDuration)
    /\ sourcesRef \subseteq 1..audioSeq
    /\ \A n \in nodes : n.id \in 1..audioSeq
    /\ \A m \in inflight : m.id \in 1..audioSeq
    /\ capture \subseteq 1..Len(sessions)
    /\ audioSeq \in 0..MaxSegments
    /\ lastFrame \in {"none", "live", "late"}

\* ================================================================= claims
FinishSetCall ==
    [name |-> "updateWorkoutState", action |-> "finish_set",
     value |-> NoDifficulty]

\* session s's onmessage handles a message carrying one finish_set call
FinishSet(s) == OnToolCall(s, <<FinishSetCall>>)

\* session s has completed its last exercise and its teardown is still to run
CompletionPending(s) ==
    /\ ~workoutState.isActive
    /\ \E i \in 1..Len(pendingStops) : pendingStops[i].session = s

\* the exercise the workout state points at
CurrentExercise == activeExercises[workoutState.currentExerciseIndex + 1]

HasCurrentExercise ==
    workoutState.currentExerciseIndex + 1 \in DOMAIN activeExercises

IsLastExercise ==
    workoutState.currentExerciseIndex = Len(activeExercises) - 1

\* the history records appended while session s was the latest one
Records(s) == Cardinality({i \in 1..Len(history) : history[i].during = s})

\* C1: every function call received so far has exactly one tool-response
\* with its id, whatever its function name and its action.
C1_EveryCallAnswered ==
    \A i \in 1..Len(responses) : responses[i] = 1

\* C2: in an active state with currentSet below the current exercise's
\* targetSets, a FinishSet of the running session increments currentSet by 1,
\* sets isResting, sets timer to the current exercise's restSeconds and keeps
\* currentExerciseIndex.
C2_FinishSetRests ==
    [][\A s \in {CurrentSession} \ {0} :
         (/\ FinishSet(s)
          /\ workoutState.isActive
          /\ HasCurrentExercise
          /\ workoutState.currentSet < CurrentExercise.targetSets)
         => /\ workoutState'.currentSet = workoutState.currentSet + 1
            /\ workoutState'.isResting
            /\ workoutState'.timer = CurrentExercise.restSeconds
            /\ workoutState'.currentExerciseIndex =
                  workoutState.currentExerciseIndex]_vars

\* C3: in an active state with currentSet equal to the current exercise's
\* targetSets and a further exercise to go, a FinishSet of the running session
\* sets currentSet to 1, clears isResting, zeroes timer and increments
\* currentExerciseIndex by 1.
C3_FinishSetAdvances ==
    [][\A s \in {CurrentSession} \ {0} :
         (/\ FinishSet(s)
          /\ workoutState.isActive
          /\ HasCurrentExercise
          /\ workoutState.currentSet = CurrentExercise.targetSets
          /\ ~IsLastExercise)
         => /\ workoutState'.currentSet = 1
            /\ ~workoutState'.isResting
            /\ workoutState'.timer = 0
            /\ workoutState'.currentExerciseIndex =
                  workoutState.currentExerciseIndex + 1]_vars

\* C4: session completion is triggered exactly once: a FinishSet received
\* once the running session has completed, its teardown still pending, changes
\* no state and schedules no further teardown.
C4_CompletionOnce ==
    [][\A s \in {CurrentSession} \ {0} :
         (FinishSet(s) /\ CompletionPending(s))
         => /\ workoutState' = workoutState
            /\ pendingStops' = pendingStops]_vars

\* C5: no session gets a second history record, and a session the user has
\* stopped has exactly one.
C5_OneRecordPerSession ==
    /\ \A s \in 1..Len(sessions) : Records(s) <= 1
    /\ userStopped => Records(CurrentSession) = 1

\* C6: a rest timer started with N seconds ticks at most N times, and its
\* N-th tick leaves timer = 0 and isResting = FALSE and stops the timer.
C6_TimerEndsAfterN ==
    [][\A t \in intervals :
         RestTimerTick(t)
         => /\ t.remaining >= 1
            /\ t.remaining = 1
               => /\ workoutState'.timer = 0
                  /\ ~workoutState'.isResting
                  /\ \A u \in intervals' : u.id # t.id]_vars

\* C7: at most one rest timer is live, and it is the one started most
\* recently (the one timerIntervalRef holds), so no other timer writes timer.
C7_OneLiveTimer ==
    /\ Cardinality(intervals) <= 1
    /\ \A t \in intervals : t.id = timerIntervalRef

\* a timer was started while another was running, and is now the live one
C7_Witness ==
    \E t \in intervals : t.replaced /\ t.id = timerIntervalRef

\* C8: a tick of a timer whose session has been closed (by stop, by the
\* remote end or by the teardown after completion) leaves the workout state
\* as it is.
C8_NoTickAfterTeardown ==
    [][\A t \in intervals :
         (RestTimerTick(t) /\ sessions[t.session].status = "closed")
         => workoutState' = workoutState]_vars

\* C9: after a remote-initiated close the workout is inactive (both
\* isWorkoutActive and workoutState.isActive are false) and no session handle
\* is retained.
C9_RemoteCloseStops ==
    [][\A s \in 1..Len(sessions) :
         RemoteClose(s)
         => /\ ~isWorkoutActive'
            /\ ~workoutState'.isActive
            /\ sessionRef' = 0]_vars

\* C10: from a user-triggered stop until the next start no remote session is
\* open and no session handle is retained.
C10_StopLeavesNoSession ==
    userStopped
    => /\ sessionRef = 0
       /\ \A s \in 1..Len(sessions) : sessions[s].status # "open"

\* a difficulty change to d reaches the running workout, from the difficulty
\* control or as a set_difficulty call of the running session
DifficultyChange(d) ==
    \/ UIDifficultyChange(d)
    \/ \E s \in {CurrentSession} \ {0} : OnToolCall(s, <<SetDifficultyCall(d)>>)

\* C14: a difficulty change replaces exactly the exercise at the state's
\* current index by its adjusted version: every other entry of the exercise
\* sequence and the WorkoutState stay as they are.
C14_DifficultyAtCurrentIndex ==
    [][\A d \in DifficultyInputs :
         (DifficultyChange(d) /\ ~crashed /\ isWorkoutActive
             /\ HasCurrentExercise)
         => /\ workoutState' = workoutState
            /\ activeExercises' =
                  [activeExercises EXCEPT
                     ![workoutState.currentExerciseIndex + 1] =
                        adjustExerciseByDifficulty(@, d)]]_vars

\* C15: the teardown that a completing FinishSet schedules runs without any
\* further input, and once it has run the completed session's handle is
\* closed and released, the workout is marked inactive and history holds a
\* record of the session.
C15_CompletionTearsDown ==
    [][TimeoutStop
         => LET s == Head(pendingStops).session
            IN /\ sessions'[s].status = "closed"
               /\ sessionRef' = 0
               /\ ~isWorkoutActive'
               /\ \E i \in 1..Len(history') : history'[i].during = s]_vars

\* C16: the record appended when the running session ends summarises the
\* session's exercise sequence as it stands at that moment, difficulty
\* adjustments included, whether the user stopped it or it completed.
C16_RecordReflectsExercises ==
    [][(/\ \/ UserStop
           \/ TimeoutStop /\ Head(pendingStops).session = CurrentSession
        /\ history' # history)
         => Head(history').exercises = NewSession(activeExercises).exercises]_vars

\* C17: in every reachable state currentExerciseIndex >= 0, currentSet >= 1
\* and timer >= 0, and while the workout state is active the index is below
\* the length of the exercise sequence.
C17_StateInvariants ==
    /\ workoutState.currentExerciseIndex >= 0
    /\ workoutState.currentSet >= 1
    /\ workoutState.timer >= 0
    /\ workoutState.isActive
       => workoutState.currentExerciseIndex < Len(activeExercises)

\* C19: a delayed teardown scheduled by the completion of one session does
\* nothing to a session started later: it neither closes that session's
\* handle, nor marks it inactive, nor appends a history record for it.
C19_LateTeardownHarmless ==
    [][(TimeoutStop /\ Head(pendingStops).session < CurrentSession)
         => /\ sessions' = sessions
            /\ sessionRef' = sessionRef
            /\ isWorkoutActive' = isWorkoutActive
            /\ history' = history]_vars

\* C20: timer is non-zero only while resting: whenever isResting is false,
\* timer is 0.
C20_TimerOnlyWhileResting ==
    ~workoutState.isResting => workoutState.timer = 0

\* C11: once a session is stopped or closed its capture graph is gone (the
\* contexts released, onaudioprocess detached), so no captured frame is
\* submitted as realtime input after the stop.
C11_NoCaptureAfterStop ==
    /\ \A s \in capture : ~SessionOver(s)
    /\ lastFrame # "late"

\* onmessage of session s handles a message, from its first statement or
\* from the await on
HandlesMessage(s) ==
    \/ \E calls \in ToolCalls : OnToolCall(s, calls)
    \/ \E audio \in BOOLEAN, interrupted \in BOOLEAN :
          OnServerContent(s, audio, interrupted)
    \/ \E m \in inflight : m.session = s /\ DecodeCompletes(m)

\* C12: once a session has been stopped or closed, the handling of an inbound
\* message of that session, one suspended at the audio decode when the stop
\* happened included, changes neither the workout state, nor the exercise
\* list, nor the playback schedule.
C12_NoEffectAfterStop ==
    [][\A s \in 1..Len(sessions) :
         (SessionOver(s) /\ HandlesMessage(s))
         => /\ workoutState' = workoutState
            /\ activeExercises' = activeExercises
            /\ nodes' = nodes
            /\ sourcesRef' = sourcesRef
            /\ nextStartTimeRef' = nextStartTimeRef]_vars

\* the interrupted branch of onmessage runs in this step
InterruptionHandled ==
    \/ \E s \in 1..Len(sessions), audio \in BOOLEAN :
          /\ ~(audio /\ outputAudioContextRef # 0)
          /\ OnServerContent(s, audio, TRUE)
    \/ \E m \in inflight : m.interrupted /\ DecodeCompletes(m)

\* C13: handling an interruption stops every scheduled segment, empties the
\* set, resets nextStartTime to 0 and signals "agent finished speaking" once:
\* the ended events of the segments it stopped signal nothing more, and no
\* segment of a message received before the interruption is started after it.
C13_InterruptionClearsPlayback ==
    [][/\ InterruptionHandled
          => /\ \A n \in nodes' : n.stopped
             /\ sourcesRef' = {}
             /\ nextStartTimeRef' = 0
             /\ ~isModelSpeaking'
       /\ \A n \in nodes : (n.stopped /\ SourceEnded(n)) => ~SignalsFinished(n)
       /\ \A m \in inflight :
             (m.stale /\ DecodeCompletes(m))
             => \A n \in nodes' : n.id = m.id => n.stopped]_vars

\* C18: playback state does not leak across sessions: when a session starts
\* the set of scheduled segments is empty, and the first segment taken up on
\* a new playback context is scheduled at that context's current time, not
\* at a nextStartTime left over.
C18_PlaybackStartsFresh ==
    [][/\ handleStartWorkout => sourcesRef' = {}
       /\ \A s \in 1..Len(sessions), interrupted \in BOOLEAN :
             (/\ OnServerContent(s, TRUE, interrupted)
              /\ outputAudioContextRef # 0
              /\ ~ctxUsed)
             => nextStartTimeRef' = outputTime]_vars

====
